---- MODULE Spec2Model ----
(***************************************************************************)
(* Model of Eternauta.ino: an ESP32 firmware that plays a random MP3 from  *)
(* SPIFFS when the Play button is pressed, restarts on the Reset button,   *)
(* and offers an optional web server to list, upload and delete files.     *)
(*                                                                         *)
(* One action per function called from loop(); pc is the position of the   *)
(* single thread of control inside loop().  Time is the value millis()     *)
(* would return without its 32-bit wrap ("now"); millis() is now % 2^32.   *)
(*                                                                         *)
(* External libraries (WebServer, ESP8266Audio, SPIFFS) are not part of    *)
(* the repository.  Where their behaviour is not fixed by the source it is *)
(* left nondeterministic: whether a stream opens, whether the decoder      *)
(* begins, whether WiFi associates, and how many upload chunks one         *)
(* handleClient() call delivers.                                           *)
(***************************************************************************)
EXTENDS Integers, Sequences, FiniteSets, TLC

(* ---------------- bounds of the model ---------------- *)

\* Catalog size.  The firmware is built with 14 (Eternauta.ino:38); the model
\* keeps the same code with a small catalog so that storage stays enumerable.
CANTIDAD_TOTAL_FRASES == 2

\* Largest value of "now" (ms since boot) the model explores.
MaxTime == 150

\* Largest number of data chunks in one upload.
MaxBloques == 1

\* Width in bits of the model's millisecond counter (the chip's is 32).
BitsMillis == 16

(* ---------------- program constants ---------------- *)

\* const int demora_antirrebote = 50;
demora_antirrebote == 50

\* millis() is an unsigned 32-bit counter.  TLC's integers stop below 2^32, so
\* the model keeps the same modular arithmetic on a narrower word.
PalabraMillis == 2 ^ BitsMillis

\* millis() at true time t
Millis(t) == t % PalabraMillis

HIGH == TRUE
LOW == FALSE

UPLOAD_FILE_START == "UPLOAD_FILE_START"
UPLOAD_FILE_WRITE == "UPLOAD_FILE_WRITE"
UPLOAD_FILE_END == "UPLOAD_FILE_END"
UPLOAD_FILE_ABORTED == "UPLOAD_FILE_ABORTED"

(* ---------------- input sets ---------------- *)

\* Time that passes between two consecutive calls of gestionarPulsadores: an
\* idle loop() comes round within the same millisecond, a busy one takes longer.
Deltas == {0, 30, 60}

\* Value of millis() when loop() is entered for the first time after a boot.
BootTimes == {30, 60}

\* Time reproducirFraseAleatoria() takes: it runs between the two millis()
\* reads of the Play branch of gestionarPulsadores.
StartDelays == {0, 30}

(* ---------------- names and storage ---------------- *)

\* A path is a sequence of tokens; "/" is a token of its own so that
\* startsWith("/") and "/" + name are computed, not assumed.

\* sprintf(ruta_archivo, "/frase%d.mp3", i)
RutaFrase(i) == <<"/", "frase", ToString(i), ".mp3">>

\* The same name as a browser sends it (no leading slash).
NombreFrase(i) == <<"frase", ToString(i), ".mp3">>

StartsWithSlash(nombre) == Len(nombre) > 0 /\ nombre[1] = "/"

\* SPIFFS.exists(path) on a file system fs (a function from paths to contents)
Exists(fs, ruta) == ruta \in DOMAIN fs

\* Variant of SPIFFS.remove(path) that removes nothing.
RemoveNada(fs, ruta) == fs

\* SPIFFS.remove(path)
Remove(fs, ruta) == [r \in (DOMAIN fs) \ {ruta} |-> fs[r]]

\* SPIFFS.open(path, "w"): creates or truncates the file
OpenW(fs, ruta) == [r \in (DOMAIN fs) \cup {ruta} |-> IF r = ruta THEN <<>> ELSE fs[r]]

\* File::write(buf, size): appends one block
WriteBlock(fs, ruta, buf) == [fs EXCEPT ![ruta] = Append(@, buf)]

\* Contents of the clips present at power-on: one or two decodable frames.
ClipInicial(i) == [j \in 1..(((i - 1) % 2) + 1) |-> "mp3"]

FsInicial(presentes) == [r \in {RutaFrase(i) : i \in presentes} |->
                           ClipInicial(CHOOSE i \in presentes : RutaFrase(i) = r)]

(* ---------------- serial command text ---------------- *)

\* A line is a sequence of one-character strings.
Blancos == {" ", "\t", "\r", "\n"}

RECURSIVE TrimIzq(_)
TrimIzq(s) == IF s # <<>> /\ Head(s) \in Blancos THEN TrimIzq(Tail(s)) ELSE s

RECURSIVE TrimDer(_)
TrimDer(s) ==
  IF s # <<>> /\ s[Len(s)] \in Blancos THEN TrimDer(SubSeq(s, 1, Len(s) - 1)) ELSE s

\* String::trim()
Trim(s) == TrimDer(TrimIzq(s))

Minuscula(c) ==
  CASE c = "W" -> "w"
    [] c = "E" -> "e"
    [] c = "B" -> "b"
    [] c = "S" -> "s"
    [] OTHER -> c

\* String::toLowerCase()
ToLowerCase(s) == [i \in 1..Len(s) |-> Minuscula(s[i])]

\* Lines the serial monitor may send (Serial.readStringUntil('\n')).
Lineas == { <<"w", "e", "b">>,
            <<" ", "W", "e", "B", "\r">>,
            <<"w", "e", "b", "s">>,
            <<"w", "e", " ", "b">>,
            <<>> }

(* ---------------- state ---------------- *)

VARIABLES
  pc,                     \* position of the thread of control: setup, the loop steps, halted
  now,                    \* ms since boot
  spiffs,                 \* flash file system: path -> sequence of blocks (survives restart)
  reproduccion_en_curso,  \* bool reproduccion_en_curso
  fuente_audio,           \* AudioFileSourceSPIFFS: open?, path, read position
  mp3_running,            \* AudioGeneratorMP3::isRunning()
  servidor_web_activo,    \* bool servidor_web_activo
  archivos_ok,            \* bool archivos_ok
  archivoDeSubida,        \* File archivoDeSubida: open?, path
  estado_anterior_play,   \* static bool estado_anterior_play
  ultimo_tiempo_play,     \* static unsigned long ultimo_tiempo_play
  estado_anterior_reset,  \* static bool estado_anterior_reset
  ultimo_tiempo_reset,    \* static unsigned long ultimo_tiempo_reset
  peticion,               \* HTTP request the WebServer is in the middle of
  respuestas,             \* status codes sent for the current (or last) request
  registro,               \* lines written to Serial by the last step
  ultimo,                 \* what the last step did (observation only)
  nivel,                  \* last sampled physical level of each button (survives restart)
  ev_act,                 \* Pressed events emitted in the current physical activation
  desde_flanco,           \* time since the handling of Play's last falling edge, or since boot
  desde_ev,               \* time since the last Pressed event of each channel (saturating)
  separacion,             \* time between the last two Pressed events of each channel
  reinicios_act,          \* restarts triggered in the current physical activation of Reset
  hist_play,              \* activations of Play seen since boot (last two)
  fallo_previo            \* number drawn by the latest start since boot if it failed, else 0

programa == <<pc, now, spiffs, reproduccion_en_curso, fuente_audio, mp3_running,
            servidor_web_activo, archivos_ok, archivoDeSubida,
            estado_anterior_play, ultimo_tiempo_play,
            estado_anterior_reset, ultimo_tiempo_reset, peticion, respuestas>>

observacion == <<registro, ultimo, nivel, ev_act, desde_flanco, desde_ev, separacion,
                 reinicios_act, hist_play, fallo_previo>>

vars == <<programa, observacion>>

Canales == {"play", "reset"}

FuenteCerrada == [abierto |-> FALSE, ruta |-> <<>>, pos |-> 0]

ArchivoCerrado == [abierto |-> FALSE, ruta |-> <<>>]

SinPeticion == [tipo |-> "ninguna", fase |-> "", nombre |-> <<>>, bloques |-> 0,
                rechazada |-> FALSE]

Nada == [op |-> "nada", play |-> "nada", reset |-> "nada", inicio |-> "ninguno",
         sorteo |-> 0, ocupado |-> FALSE, estado |-> "", codigo |-> 0, listado |-> {},
         reemplaza |-> FALSE, nombre |-> <<>>, linea |-> <<>>, conecta |-> FALSE,
         tras_fallo |-> 0]

\* Saturating time: values above the debounce window are not told apart.
Sat(x) == IF x > demora_antirrebote THEN demora_antirrebote + 1 ELSE x

Min(a, b) == IF a < b THEN a ELSE b

\* bool verificarArchivos()
verificarArchivos(fs) == \A i \in 1..CANTIDAD_TOTAL_FRASES : Exists(fs, RutaFrase(i))

\* Serial output of verificarArchivos()
LogVerificar(fs) ==
  IF verificarArchivos(fs) THEN <<"Todos los archivos requeridos estan presentes.">>
  ELSE <<"ERROR: Falta el archivo">>

\* Values of the globals and function statics when the program image is loaded.
Arranque ==
  /\ reproduccion_en_curso = FALSE
  /\ fuente_audio = FuenteCerrada
  /\ mp3_running = FALSE
  /\ servidor_web_activo = FALSE
  /\ archivos_ok = FALSE
  /\ archivoDeSubida = ArchivoCerrado
  /\ estado_anterior_play = HIGH
  /\ ultimo_tiempo_play = 0
  /\ estado_anterior_reset = HIGH
  /\ ultimo_tiempo_reset = 0
  /\ peticion = SinPeticion
  /\ respuestas = <<>>

Init ==
  /\ pc = "setup"
  /\ now = 0
  /\ \E presentes \in SUBSET (1..CANTIDAD_TOTAL_FRASES) : spiffs = FsInicial(presentes)
  /\ Arranque
  /\ registro = <<>>
  /\ ultimo = Nada
  /\ nivel = [c \in Canales |-> HIGH]
  /\ ev_act = [c \in Canales |-> 0]
  /\ desde_flanco = 0
  /\ desde_ev = [c \in Canales |-> demora_antirrebote + 1]
  /\ separacion = [c \in Canales |-> demora_antirrebote + 1]
  /\ reinicios_act = 0
  /\ hist_play = <<>>
  /\ fallo_previo = 0

(* ---------------- setup() ---------------- *)

\* Variant of setup() that enters loop() whatever SPIFFS.begin() returns.
TrasMontarSiempre(monta) == "web"

\* if (!SPIFFS.begin(true)) { ...; while (true); }: where control goes after
\* the mount, monta being the value SPIFFS.begin() returns.
TrasMontar(monta) == IF monta THEN "web" ELSE "detenido"

\* setup(): mounts SPIFFS (halting in while(true) when the mount fails), audits
\* the catalog and creates the audio objects.  It also stands for the start of
\* the program image after ESP.restart(): every global and static is back at
\* its initial value, the flash contents are kept.
Setup ==
  /\ pc = "setup"
  /\ \E monta \in BOOLEAN, t \in BootTimes :
       /\ pc' = TrasMontar(monta)
       /\ now' = t
       /\ archivos_ok' = IF monta THEN verificarArchivos(spiffs) ELSE FALSE
       /\ registro' = IF monta
                        THEN <<"Sistema de archivos SPIFFS inicializado.">> \o LogVerificar(spiffs)
                        ELSE <<"Error al inicializar SPIFFS. El programa se detendra.">>
       /\ ultimo' = [Nada EXCEPT !.op = "setup", !.estado = IF monta THEN "ok" ELSE "fallo"]
  /\ reproduccion_en_curso' = FALSE
  /\ fuente_audio' = FuenteCerrada
  /\ mp3_running' = FALSE
  /\ servidor_web_activo' = FALSE
  /\ archivoDeSubida' = ArchivoCerrado
  /\ estado_anterior_play' = HIGH
  /\ ultimo_tiempo_play' = 0
  /\ estado_anterior_reset' = HIGH
  /\ ultimo_tiempo_reset' = 0
  /\ peticion' = SinPeticion
  /\ respuestas' = <<>>
  /\ hist_play' = <<>>
  /\ fallo_previo' = 0
  /\ desde_flanco' = Sat(now')
  /\ UNCHANGED <<spiffs, nivel, ev_act, desde_ev, separacion, reinicios_act>>

(* ---------------- playback session ---------------- *)

\* Variant of random(min, max) that can also return max.
RandomInclusivo(min, max) == min..max

\* Variant of random(min, max) that starts one below min.
RandomDesdeCero(min, max) == (min - 1)..(max - 1)

\* random(min, max): the values the Arduino generator can return
Random(min, max) == min..(max - 1)

\* Variant of reproducirFraseAleatoria() that marks the session busy before the
\* existence and open checks.
ReproducirMarcandoAntes(numero, abre, comienza) ==
  LET ruta == RutaFrase(numero) IN
  IF ~Exists(spiffs, ruta) THEN
    [en_curso |-> TRUE, fuente |-> fuente_audio, running |-> mp3_running,
     resultado |-> "no_existe",
     log |-> <<"Intentando reproducir desde SPIFFS",
               "El archivo no existe en SPIFFS. NO SE PUEDE REPRODUCIR.">>]
  ELSE IF ~abre THEN
    [en_curso |-> TRUE, fuente |-> FuenteCerrada, running |-> mp3_running,
     resultado |-> "open_fallo",
     log |-> <<"Intentando reproducir desde SPIFFS", "Error al abrir el archivo">>]
  ELSE
    [en_curso |-> TRUE,
     fuente |-> [abierto |-> TRUE, ruta |-> ruta, pos |-> 0],
     running |-> comienza,
     resultado |-> IF comienza THEN "ok" ELSE "begin_fallo",
     log |-> <<"Intentando reproducir desde SPIFFS", "Iniciando reproduccion de audio...">>]

\* void reproducirFraseAleatoria(), for the drawn number and the answers of the
\* libraries: abre = fuente_audio->open(ruta) succeeded, comienza =
\* reproductor_mp3->begin(...) succeeded (its return value is not read).
\* The result is the new value of the session and what was logged.
ReproducirFraseAleatoria(numero, abre, comienza) ==
  LET ruta == RutaFrase(numero) IN
  IF ~Exists(spiffs, ruta) THEN
    [en_curso |-> reproduccion_en_curso, fuente |-> fuente_audio, running |-> mp3_running,
     resultado |-> "no_existe",
     log |-> <<"Intentando reproducir desde SPIFFS",
               "El archivo no existe en SPIFFS. NO SE PUEDE REPRODUCIR.">>]
  ELSE IF ~abre THEN
    [en_curso |-> reproduccion_en_curso, fuente |-> FuenteCerrada, running |-> mp3_running,
     resultado |-> "open_fallo",
     log |-> <<"Intentando reproducir desde SPIFFS", "Error al abrir el archivo">>]
  ELSE
    [en_curso |-> TRUE,
     fuente |-> [abierto |-> TRUE, ruta |-> ruta, pos |-> 0],
     running |-> comienza,
     resultado |-> IF comienza THEN "ok" ELSE "begin_fallo",
     log |-> <<"Intentando reproducir desde SPIFFS", "Iniciando reproduccion de audio...">>]

\* void gestionarReproduccionAudio(): one reproductor_mp3->loop() while the
\* decoder runs; loop() decodes one frame and returns false when the file has
\* no more frames.
GestionarReproduccionAudio ==
  /\ pc = "audio"
  /\ pc' = "web"
  /\ IF reproduccion_en_curso /\ mp3_running
       THEN LET datos == IF Exists(spiffs, fuente_audio.ruta)
                           THEN spiffs[fuente_audio.ruta] ELSE <<>>
                quedan == fuente_audio.pos < Len(datos)
            IN IF quedan
                 THEN /\ fuente_audio' = [fuente_audio EXCEPT !.pos = @ + 1]
                      /\ registro' = <<>>
                      /\ ultimo' = [Nada EXCEPT !.op = "audio", !.ocupado = TRUE,
                                                !.estado = "paso"]
                      /\ UNCHANGED <<reproduccion_en_curso, mp3_running>>
                 ELSE /\ mp3_running' = FALSE
                      /\ fuente_audio' = FuenteCerrada
                      /\ reproduccion_en_curso' = FALSE
                      /\ registro' = <<"Reproduccion finalizada.">>
                      /\ ultimo' = [Nada EXCEPT !.op = "audio", !.ocupado = TRUE,
                                                !.estado = "fin"]
       ELSE /\ registro' = <<>>
            /\ ultimo' = [Nada EXCEPT !.op = "audio", !.ocupado = reproduccion_en_curso,
                                      !.estado = "sin_paso"]
            /\ UNCHANGED <<reproduccion_en_curso, fuente_audio, mp3_running>>
  /\ UNCHANGED <<now, spiffs, servidor_web_activo, archivos_ok, archivoDeSubida,
                 estado_anterior_play, ultimo_tiempo_play, estado_anterior_reset,
                 ultimo_tiempo_reset, peticion, respuestas>>
  /\ UNCHANGED <<nivel, ev_act, desde_flanco, desde_ev, separacion, reinicios_act, hist_play,
                 fallo_previo>>

(* ---------------- buttons ---------------- *)

\* estado_actual == LOW && estado_anterior == HIGH
FlancoBajada(actual, anterior) == actual = LOW /\ anterior = HIGH

\* Variant of the time check that lets every falling edge through.
TiempoSiempreCumplido(ahora, ultimo_tiempo) == TRUE

\* Variant of the time check with no debounce window.
TiempoCumplidoSinMargen(ahora, ultimo_tiempo) ==
  ((ahora - ultimo_tiempo) % PalabraMillis) > 0

\* Variant of the time check computed in unbounded integers, without the
\* reduction modulo the width of the counter.
TiempoCumplidoSinModulo(ahora, ultimo_tiempo) == (ahora - ultimo_tiempo) > demora_antirrebote

\* millis() - ultimo_tiempo > demora_antirrebote, in unsigned arithmetic
TiempoCumplido(ahora, ultimo_tiempo) ==
  ((ahora - ultimo_tiempo) % PalabraMillis) > demora_antirrebote

\* Variant of the session check that never finds the session busy.
SesionLibreSiempre == TRUE

\* if (!reproduccion_en_curso)
SesionLibre == ~reproduccion_en_curso

\* Variant of gestionarPulsadores() that never stores the time of an edge.
UltimoTiempoSinGuardar(flanco, ahora, ultimo_tiempo) == ultimo_tiempo

\* ultimo_tiempo = millis(), executed on every falling edge
UltimoTiempo(flanco, ahora, ultimo_tiempo) == IF flanco THEN ahora ELSE ultimo_tiempo

\* Observation: the Pressed events of one physical activation of a channel.
ContarEvento(c, actual, acepta) ==
  IF actual = LOW /\ nivel[c] = HIGH
    THEN (IF acepta THEN 1 ELSE 0)
    ELSE IF acepta THEN Min(ev_act[c] + 1, 2) ELSE ev_act[c]

\* Observation: the activations of Play since boot.  d is the time since the
\* previous call, d2 the time the call itself takes after sampling.
HistPlay(actual, acepta, d, d2) ==
  LET n == Len(hist_play)
      en_act == n > 0 /\ hist_play[n].activa
      suma == IF acepta THEN 1 ELSE 0
  IN IF actual = LOW /\ ~en_act
       THEN LET nueva == [ev |-> suma, dur |-> Sat(d2), activa |-> TRUE,
                          limpia |-> Sat(desde_flanco + d) > demora_antirrebote]
            IN IF n = 0 THEN <<nueva>> ELSE <<hist_play[n], nueva>>
       ELSE IF n = 0 THEN hist_play
       ELSE [hist_play EXCEPT ![n] =
               [@ EXCEPT !.ev = Min(@ + suma, 2),
                         !.dur = IF en_act /\ actual = LOW THEN Sat(@ + d) ELSE @,
                         !.activa = en_act /\ actual = LOW]]

\* The decisions of gestionarPulsadores() for the sampled levels; d is the time
\* since the previous call, e the time the start attempt takes.
AceptaPlay(actual_play, d) ==
  /\ FlancoBajada(actual_play, estado_anterior_play)
  /\ TiempoCumplido(Millis(now + d), ultimo_tiempo_play)

\* Variant of the Play branch that makes no new attempt after a failed one.
IniciaSinReintento(actual_play, d) ==
  AceptaPlay(actual_play, d) /\ SesionLibre /\ fallo_previo = 0

Inicia(actual_play, d) == AceptaPlay(actual_play, d) /\ SesionLibre

\* Time of the millis() reads that follow the Play branch.
TrasPlay(actual_play, d, e) == IF Inicia(actual_play, d) THEN now + d + e ELSE now + d

AceptaReset(actual_play, actual_reset, d, e) ==
  /\ FlancoBajada(actual_reset, estado_anterior_reset)
  /\ TiempoCumplido(Millis(TrasPlay(actual_play, d, e)), ultimo_tiempo_reset)

\* void gestionarPulsadores().  actual_play and actual_reset are the two
\* digitalRead() results; numero, abre and comienza are the inputs of
\* reproducirFraseAleatoria().
GestionarPulsadores(actual_play, actual_reset, d, e, numero, abre, comienza) ==
  LET flanco_play == FlancoBajada(actual_play, estado_anterior_play)
      acepta_play == AceptaPlay(actual_play, d)
      inicia == Inicia(actual_play, d)
      r == ReproducirFraseAleatoria(numero, abre, comienza)
      t2 == TrasPlay(actual_play, d, e)
      flanco_reset == FlancoBajada(actual_reset, estado_anterior_reset)
      acepta_reset == AceptaReset(actual_play, actual_reset, d, e)
  IN
  /\ pc = "pulsadores"
  /\ t2 <= MaxTime
  \* inputs that are not read take one value
  /\ inicia \/ (numero = 1 /\ abre /\ comienza /\ e = 0)
  /\ now' = t2
  \* Play
  /\ reproduccion_en_curso' = IF inicia THEN r.en_curso ELSE reproduccion_en_curso
  /\ fuente_audio' = IF inicia THEN r.fuente ELSE fuente_audio
  /\ mp3_running' = IF inicia THEN r.running ELSE mp3_running
  /\ ultimo_tiempo_play' = UltimoTiempo(flanco_play, Millis(t2), ultimo_tiempo_play)
  /\ estado_anterior_play' = actual_play
  \* Reset: ESP.restart() does not return
  /\ IF acepta_reset
       THEN /\ pc' = "setup"
            /\ UNCHANGED <<ultimo_tiempo_reset, estado_anterior_reset>>
       ELSE /\ pc' = "audio"
            /\ ultimo_tiempo_reset' = UltimoTiempo(flanco_reset, Millis(t2), ultimo_tiempo_reset)
            /\ estado_anterior_reset' = actual_reset
  /\ registro' = (IF inicia THEN r.log ELSE <<>>)
                 \o (IF acepta_reset
                       THEN <<"Boton de reinicio presionado. Reiniciando el sistema...">>
                       ELSE <<>>)
  /\ ultimo' = [Nada EXCEPT
                  !.op = "pulsadores",
                  !.ocupado = reproduccion_en_curso,
                  !.play = IF ~flanco_play THEN "nada"
                           ELSE IF ~acepta_play THEN "rebote"
                           ELSE IF inicia THEN "inicio" ELSE "ocupado",
                  !.reset = IF ~flanco_reset THEN "nada"
                            ELSE IF acepta_reset THEN "reinicio" ELSE "rebote",
                  !.inicio = IF inicia THEN r.resultado ELSE "ninguno",
                  !.sorteo = IF inicia THEN numero ELSE 0,
                  !.tras_fallo = fallo_previo]
  /\ UNCHANGED <<spiffs, servidor_web_activo, archivos_ok, archivoDeSubida, peticion,
                 respuestas>>

\* Observation of the two channels during one call of gestionarPulsadores():
\* physical activations, the events each one emitted and the time between events.
ObservarBotones(actual_play, actual_reset, d, e) ==
  LET acepta_play == AceptaPlay(actual_play, d)
      acepta_reset == AceptaReset(actual_play, actual_reset, d, e)
      dt == TrasPlay(actual_play, d, e) - now
      visto_play == actual_play = LOW
                    /\ ~(Len(hist_play) > 0 /\ hist_play[Len(hist_play)].activa)
  IN
  /\ nivel' = [c \in Canales |-> IF c = "play" THEN actual_play ELSE actual_reset]
  /\ ev_act' = [c \in Canales |-> IF c = "play"
                                    THEN ContarEvento(c, actual_play, acepta_play)
                                    ELSE ContarEvento(c, actual_reset, acepta_reset)]
  /\ reinicios_act' = IF actual_reset = LOW /\ nivel["reset"] = HIGH
                        THEN (IF acepta_reset THEN 1 ELSE 0)
                        ELSE IF acepta_reset THEN Min(reinicios_act + 1, 2)
                        ELSE reinicios_act
  /\ separacion' = [c \in Canales |->
                      IF c = "play"
                        THEN (IF acepta_play THEN Sat(desde_ev[c] + d) ELSE separacion[c])
                        ELSE (IF acepta_reset THEN Sat(desde_ev[c] + dt) ELSE separacion[c])]
  \* delay(100) precedes ESP.restart()
  /\ desde_ev' = [c \in Canales |->
                    IF acepta_reset THEN demora_antirrebote + 1
                    ELSE IF c = "play" /\ acepta_play THEN Sat(dt - d)
                    ELSE Sat(desde_ev[c] + dt)]
  /\ hist_play' = HistPlay(actual_play, acepta_play, d, dt - d)
  /\ desde_flanco' = IF visto_play THEN 0 ELSE Sat(desde_flanco + dt)

SinObservarBotones ==
  UNCHANGED <<nivel, ev_act, reinicios_act, separacion, desde_ev, hist_play, desde_flanco>>

\* Observation of the start attempts made by gestionarPulsadores().
ObservarInicio(actual_play, d, numero, abre, comienza) ==
  fallo_previo' =
    IF Inicia(actual_play, d)
      THEN (IF ReproducirFraseAleatoria(numero, abre, comienza).resultado
                 \in {"no_existe", "open_fallo"}
              THEN numero ELSE 0)
      ELSE fallo_previo

SinObservarInicio == UNCHANGED fallo_previo

(* ---------------- serial command ---------------- *)

\* void activarModoWeb(): conecta = WiFi.status() == WL_CONNECTED after the wait
ActivarModoWeb(conecta) ==
  IF servidor_web_activo
    THEN /\ registro' = <<"El servidor web ya esta activo.">>
         /\ UNCHANGED servidor_web_activo
    ELSE IF conecta
      THEN /\ servidor_web_activo' = TRUE
           /\ registro' = <<"Comando 'web' recibido. Iniciando WiFi...", "Servidor web iniciado.">>
      ELSE /\ UNCHANGED servidor_web_activo
           /\ registro' = <<"Comando 'web' recibido. Iniciando WiFi...",
                            "ERROR: No se pudo conectar a WiFi.">>

\* Variant of the comparison that accepts every command that starts with "web".
EsComandoWebPrefijo(comando) == Len(comando) >= 3 /\ SubSeq(comando, 1, 3) = <<"w", "e", "b">>

\* if (comando == "web")
EsComandoWeb(comando) == comando = <<"w", "e", "b">>

\* void leerComandoSerial(): disponible = Serial.available(), linea the text
\* read up to the line feed.
LeerComandoSerial(disponible, linea, conecta) ==
  /\ pc = "serial"
  /\ pc' = "pulsadores"
  \* inputs that are not read take one value
  /\ disponible \/ linea = <<>>
  /\ (disponible /\ EsComandoWeb(ToLowerCase(Trim(linea)))) \/ conecta
  /\ IF disponible /\ EsComandoWeb(ToLowerCase(Trim(linea)))
       THEN ActivarModoWeb(conecta)
       ELSE /\ registro' = <<>>
            /\ UNCHANGED servidor_web_activo
  /\ ultimo' = [Nada EXCEPT !.op = "serial", !.ocupado = reproduccion_en_curso,
                            !.estado = IF ~disponible THEN "vacio"
                                       ELSE IF EsComandoWeb(ToLowerCase(Trim(linea)))
                                         THEN "web" ELSE "ignorado",
                            !.linea = linea, !.conecta = conecta]
  /\ UNCHANGED <<now, spiffs, reproduccion_en_curso, fuente_audio, mp3_running,
                 archivos_ok, archivoDeSubida, estado_anterior_play, ultimo_tiempo_play,
                 estado_anterior_reset, ultimo_tiempo_reset, peticion, respuestas>>
  /\ UNCHANGED <<nivel, ev_act, desde_flanco, desde_ev, separacion, reinicios_act, hist_play,
                 fallo_previo>>

(* ---------------- web server ---------------- *)

\* File names a browser may upload (upload.filename): one catalog file, named
\* without and with the leading slash.
NombresSubida == {NombreFrase(1), RutaFrase(1)}

\* Values of the 'filename' argument of GET /delete.
ArgsDelete == {NombreFrase(1), NombreFrase(CANTIDAD_TOTAL_FRASES), RutaFrase(1)}

\* Data blocks (upload.buf).
Bloques == {"blk"}

\* String listarArchivosSPIFFS(): one entry per file of the root directory,
\* with the name used in the delete link.
listarArchivosSPIFFS(fs) ==
  {[nombre |-> r, enlace |-> IF StartsWithSlash(r) THEN Tail(r) ELSE r, bytes |-> Len(fs[r])]
     : r \in DOMAIN fs}

\* Variant of handleFileUpload() without the silent drop of the blocks that
\* arrive while the session is busy.
HandleFileUploadSinDescarte(status, filename, buf, abre) ==
  IF reproduccion_en_curso /\ status = UPLOAD_FILE_START THEN
    [fs |-> spiffs, archivo |-> archivoDeSubida, envia |-> <<409>>,
     log |-> <<"Subida de archivo rechazada: reproduccion en curso.">>]
  ELSE IF status = UPLOAD_FILE_START THEN
    LET ruta == IF StartsWithSlash(filename) THEN filename ELSE <<"/">> \o filename
        fs1 == IF Exists(spiffs, ruta) THEN Remove(spiffs, ruta) ELSE spiffs
    IN IF abre
         THEN [fs |-> OpenW(fs1, ruta), archivo |-> [abierto |-> TRUE, ruta |-> ruta],
               envia |-> <<>>, log |-> <<"Iniciando subida de archivo">>]
         ELSE [fs |-> fs1, archivo |-> ArchivoCerrado, envia |-> <<>>,
               log |-> <<"Iniciando subida de archivo",
                         "Error al abrir el archivo en SPIFFS para escritura.">>]
  ELSE IF status = UPLOAD_FILE_WRITE THEN
    [fs |-> IF archivoDeSubida.abierto /\ Exists(spiffs, archivoDeSubida.ruta)
              THEN WriteBlock(spiffs, archivoDeSubida.ruta, buf) ELSE spiffs,
     archivo |-> archivoDeSubida, envia |-> <<>>, log |-> <<>>]
  ELSE IF status = UPLOAD_FILE_END /\ archivoDeSubida.abierto THEN
    [fs |-> spiffs, archivo |-> ArchivoCerrado, envia |-> <<>>,
     log |-> <<"Subida de archivo finalizada">>]
  ELSE
    [fs |-> spiffs, archivo |-> archivoDeSubida, envia |-> <<>>, log |-> <<>>]

\* Variant of handleFileUpload() that accepts the first block of an upload
\* while the session is busy.
HandleFileUploadSinRechazo(status, filename, buf, abre) ==
  IF status = UPLOAD_FILE_START THEN
    LET ruta == IF StartsWithSlash(filename) THEN filename ELSE <<"/">> \o filename
        fs1 == IF Exists(spiffs, ruta) THEN Remove(spiffs, ruta) ELSE spiffs
    IN IF abre
         THEN [fs |-> OpenW(fs1, ruta), archivo |-> [abierto |-> TRUE, ruta |-> ruta],
               envia |-> <<>>, log |-> <<"Iniciando subida de archivo">>]
         ELSE [fs |-> fs1, archivo |-> ArchivoCerrado, envia |-> <<>>,
               log |-> <<"Iniciando subida de archivo",
                         "Error al abrir el archivo en SPIFFS para escritura.">>]
  ELSE IF reproduccion_en_curso THEN
    [fs |-> spiffs, archivo |-> archivoDeSubida, envia |-> <<>>, log |-> <<>>]
  ELSE IF status = UPLOAD_FILE_WRITE THEN
    [fs |-> IF archivoDeSubida.abierto /\ Exists(spiffs, archivoDeSubida.ruta)
              THEN WriteBlock(spiffs, archivoDeSubida.ruta, buf) ELSE spiffs,
     archivo |-> archivoDeSubida, envia |-> <<>>, log |-> <<>>]
  ELSE IF status = UPLOAD_FILE_END /\ archivoDeSubida.abierto THEN
    [fs |-> spiffs, archivo |-> ArchivoCerrado, envia |-> <<>>,
     log |-> <<"Subida de archivo finalizada">>]
  ELSE
    [fs |-> spiffs, archivo |-> archivoDeSubida, envia |-> <<>>, log |-> <<>>]

\* if (!filename.startsWith("/")) filename = "/" + filename;
RutaSubida(filename) == IF StartsWithSlash(filename) THEN filename ELSE <<"/">> \o filename

\* void handleFileUpload() for one call of the upload callback: status is
\* upload.status, filename upload.filename, buf the block received, abre
\* whether SPIFFS.open(filename, "w") succeeds.  The result is the new file
\* system and write handle, the status codes sent and the lines logged.
HandleFileUpload(status, filename, buf, abre) ==
  IF reproduccion_en_curso /\ status = UPLOAD_FILE_START THEN
    [fs |-> spiffs, archivo |-> archivoDeSubida, envia |-> <<409>>,
     log |-> <<"Subida de archivo rechazada: reproduccion en curso.">>]
  ELSE IF reproduccion_en_curso THEN
    [fs |-> spiffs, archivo |-> archivoDeSubida, envia |-> <<>>, log |-> <<>>]
  ELSE IF status = UPLOAD_FILE_START THEN
    LET ruta == RutaSubida(filename)
        fs1 == IF Exists(spiffs, ruta) THEN Remove(spiffs, ruta) ELSE spiffs
    IN IF abre
         THEN [fs |-> OpenW(fs1, ruta), archivo |-> [abierto |-> TRUE, ruta |-> ruta],
               envia |-> <<>>, log |-> <<"Iniciando subida de archivo">>]
         ELSE [fs |-> fs1, archivo |-> ArchivoCerrado, envia |-> <<>>,
               log |-> <<"Iniciando subida de archivo",
                         "Error al abrir el archivo en SPIFFS para escritura.">>]
  ELSE IF status = UPLOAD_FILE_WRITE THEN
    [fs |-> IF archivoDeSubida.abierto /\ Exists(spiffs, archivoDeSubida.ruta)
              THEN WriteBlock(spiffs, archivoDeSubida.ruta, buf) ELSE spiffs,
     archivo |-> archivoDeSubida, envia |-> <<>>, log |-> <<>>]
  ELSE IF status = UPLOAD_FILE_END /\ archivoDeSubida.abierto THEN
    [fs |-> spiffs, archivo |-> ArchivoCerrado, envia |-> <<>>,
     log |-> <<"Subida de archivo finalizada">>]
  ELSE
    [fs |-> spiffs, archivo |-> archivoDeSubida, envia |-> <<>>, log |-> <<>>]

\* Variant of handleDelete() without the check of the session.
HandleDeleteSinGuarda(tiene, filename) ==
  IF tiene THEN
    LET rutaCompleta == <<"/">> \o filename IN
    IF Exists(spiffs, rutaCompleta)
      THEN [fs |-> Remove(spiffs, rutaCompleta),
            ok |-> verificarArchivos(Remove(spiffs, rutaCompleta)),
            envia |-> <<303>>,
            log |-> <<"Archivo eliminado">> \o LogVerificar(Remove(spiffs, rutaCompleta))]
      ELSE [fs |-> spiffs, ok |-> archivos_ok, envia |-> <<404>>,
            log |-> <<"Intento de eliminar archivo inexistente">>]
  ELSE
    [fs |-> spiffs, ok |-> archivos_ok, envia |-> <<400>>, log |-> <<>>]

\* Variant of handleDelete() that looks at the 'filename' argument before it
\* looks at the session.
HandleDeleteArgPrimero(tiene, filename) ==
  IF ~tiene THEN
    [fs |-> spiffs, ok |-> archivos_ok, envia |-> <<400>>, log |-> <<>>]
  ELSE IF reproduccion_en_curso THEN
    [fs |-> spiffs, ok |-> archivos_ok, envia |-> <<409>>,
     log |-> <<"Eliminacion de archivo rechazada: reproduccion en curso.">>]
  ELSE
    LET rutaCompleta == <<"/">> \o filename IN
    IF Exists(spiffs, rutaCompleta)
      THEN [fs |-> Remove(spiffs, rutaCompleta),
            ok |-> verificarArchivos(Remove(spiffs, rutaCompleta)),
            envia |-> <<303>>,
            log |-> <<"Archivo eliminado">> \o LogVerificar(Remove(spiffs, rutaCompleta))]
      ELSE [fs |-> spiffs, ok |-> archivos_ok, envia |-> <<404>>,
            log |-> <<"Intento de eliminar archivo inexistente">>]

\* Variant of handleDelete() that keeps the audit flag it had.
HandleDeleteSinVerificar(tiene, filename) ==
  IF reproduccion_en_curso THEN
    [fs |-> spiffs, ok |-> archivos_ok, envia |-> <<409>>,
     log |-> <<"Eliminacion de archivo rechazada: reproduccion en curso.">>]
  ELSE IF tiene THEN
    LET rutaCompleta == <<"/">> \o filename IN
    IF Exists(spiffs, rutaCompleta)
      THEN [fs |-> Remove(spiffs, rutaCompleta), ok |-> archivos_ok, envia |-> <<303>>,
            log |-> <<"Archivo eliminado">>]
      ELSE [fs |-> spiffs, ok |-> archivos_ok, envia |-> <<404>>,
            log |-> <<"Intento de eliminar archivo inexistente">>]
  ELSE
    [fs |-> spiffs, ok |-> archivos_ok, envia |-> <<400>>, log |-> <<>>]

\* void handleDelete(): tiene = servidorWeb.hasArg("filename"), filename its value
HandleDelete(tiene, filename) ==
  IF reproduccion_en_curso THEN
    [fs |-> spiffs, ok |-> archivos_ok, envia |-> <<409>>,
     log |-> <<"Eliminacion de archivo rechazada: reproduccion en curso.">>]
  ELSE IF tiene THEN
    LET rutaCompleta == <<"/">> \o filename IN
    IF Exists(spiffs, rutaCompleta)
      THEN [fs |-> Remove(spiffs, rutaCompleta),
            ok |-> verificarArchivos(Remove(spiffs, rutaCompleta)),
            envia |-> <<303>>,
            log |-> <<"Archivo eliminado">> \o LogVerificar(Remove(spiffs, rutaCompleta))]
      ELSE [fs |-> spiffs, ok |-> archivos_ok, envia |-> <<404>>,
            log |-> <<"Intento de eliminar archivo inexistente">>]
  ELSE
    [fs |-> spiffs, ok |-> archivos_ok, envia |-> <<400>>, log |-> <<>>]

UltimoCodigo(envia) == IF envia = <<>> THEN 0 ELSE envia[Len(envia)]

SinCambioBotones ==
  UNCHANGED <<estado_anterior_play, ultimo_tiempo_play, estado_anterior_reset,
              ultimo_tiempo_reset, nivel, ev_act, desde_flanco, desde_ev, separacion,
              reinicios_act, hist_play, fallo_previo>>

\* Variant of the web step that leaves the session marked Idle.
SinCambioSesionDetiene ==
  /\ reproduccion_en_curso' = FALSE
  /\ UNCHANGED <<now, fuente_audio, mp3_running>>

SinCambioSesion == UNCHANGED <<now, reproduccion_en_curso, fuente_audio, mp3_running>>

\* Variant of loop() that goes from the web server straight to the buttons.
LoopSinLeerSerial ==
  /\ pc = "web"
  /\ ~servidor_web_activo
  /\ pc' = "pulsadores"
  /\ registro' = <<>>
  /\ ultimo' = [Nada EXCEPT !.op = "web_inactivo", !.ocupado = reproduccion_en_curso]
  /\ UNCHANGED <<spiffs, servidor_web_activo, archivos_ok, archivoDeSubida, peticion,
                 respuestas>>
  /\ SinCambioSesion /\ SinCambioBotones

\* loop(): if (servidor_web_activo) is false, handleClient() is not called
LoopSinServidor ==
  /\ pc = "web"
  /\ ~servidor_web_activo
  /\ pc' = "serial"
  /\ registro' = <<>>
  /\ ultimo' = [Nada EXCEPT !.op = "web_inactivo", !.ocupado = reproduccion_en_curso]
  /\ UNCHANGED <<spiffs, servidor_web_activo, archivos_ok, archivoDeSubida, peticion,
                 respuestas>>
  /\ SinCambioSesion /\ SinCambioBotones

\* servidorWeb.handleClient() with no client waiting
HandleClientOcioso ==
  /\ pc = "web"
  /\ servidor_web_activo
  /\ peticion = SinPeticion
  /\ pc' = "serial"
  /\ registro' = <<>>
  /\ ultimo' = [Nada EXCEPT !.op = "web_ocioso", !.ocupado = reproduccion_en_curso]
  /\ UNCHANGED <<spiffs, servidor_web_activo, archivos_ok, archivoDeSubida, peticion,
                 respuestas>>
  /\ SinCambioSesion /\ SinCambioBotones

\* GET / -> handleRoot()
HandleRoot ==
  /\ pc = "web"
  /\ servidor_web_activo
  /\ peticion = SinPeticion
  /\ pc' = "serial"
  /\ respuestas' = <<200>>
  /\ registro' = <<>>
  /\ ultimo' = [Nada EXCEPT !.op = "root", !.ocupado = reproduccion_en_curso,
                            !.codigo = 200, !.listado = listarArchivosSPIFFS(spiffs)]
  /\ UNCHANGED <<spiffs, servidor_web_activo, archivos_ok, archivoDeSubida, peticion>>
  /\ SinCambioSesion /\ SinCambioBotones

\* GET /delete -> handleDelete()
ServirDelete(tiene, filename) ==
  LET r == HandleDelete(tiene, filename) IN
  /\ pc = "web"
  /\ servidor_web_activo
  /\ peticion = SinPeticion
  /\ pc' = "serial"
  /\ spiffs' = r.fs
  /\ archivos_ok' = r.ok
  /\ respuestas' = r.envia
  /\ registro' = r.log
  /\ ultimo' = [Nada EXCEPT !.op = "delete", !.ocupado = reproduccion_en_curso,
                            !.estado = IF tiene THEN "con_arg" ELSE "sin_arg",
                            !.nombre = IF tiene THEN filename ELSE <<>>,
                            !.codigo = UltimoCodigo(r.envia)]
  /\ UNCHANGED <<servidor_web_activo, archivoDeSubida, peticion>>
  /\ SinCambioSesion /\ SinCambioBotones

\* any other route -> handleNotFound()
HandleNotFound ==
  /\ pc = "web"
  /\ servidor_web_activo
  /\ peticion = SinPeticion
  /\ pc' = "serial"
  /\ respuestas' = <<404>>
  /\ registro' = <<>>
  /\ ultimo' = [Nada EXCEPT !.op = "notfound", !.ocupado = reproduccion_en_curso,
                            !.codigo = 404]
  /\ UNCHANGED <<spiffs, servidor_web_activo, archivos_ok, archivoDeSubida, peticion>>
  /\ SinCambioSesion /\ SinCambioBotones

\* One call of the upload callback made by the WebServer while it parses a
\* POST /upload: the handler runs on the block, the request moves to sig, and
\* the server either goes on parsing inside the same handleClient() call
\* (continua) or returns to loop() and resumes on the next iteration.
EntregarBloque(status, filename, buf, abre, sig, continua) ==
  LET r == HandleFileUpload(status, filename, buf, abre) IN
  /\ pc = "web"
  /\ servidor_web_activo
  /\ pc' = IF continua THEN "web" ELSE "serial"
  /\ spiffs' = r.fs
  /\ archivoDeSubida' = r.archivo
  /\ respuestas' = (IF status = UPLOAD_FILE_START THEN <<>> ELSE respuestas) \o r.envia
  /\ registro' = r.log
  /\ peticion' = sig
  /\ ultimo' = [Nada EXCEPT !.op = "upload", !.ocupado = reproduccion_en_curso,
                            !.estado = status, !.codigo = UltimoCodigo(r.envia),
                            !.reemplaza = /\ status = UPLOAD_FILE_START
                                          /\ ~reproduccion_en_curso
                                          /\ Exists(spiffs, RutaSubida(filename))]
  /\ UNCHANGED <<servidor_web_activo, archivos_ok>>
  /\ SinCambioSesion /\ SinCambioBotones

\* POST /upload, first block of a file
SubidaInicio(nombre, nbloques, abre, continua) ==
  /\ peticion = SinPeticion
  \* inputs that are not read take one value
  /\ reproduccion_en_curso => abre
  /\ EntregarBloque(UPLOAD_FILE_START, nombre, "", abre,
                    [tipo |-> "upload", fase |-> IF nbloques > 0 THEN "write" ELSE "end",
                     nombre |-> nombre, bloques |-> nbloques,
                     rechazada |-> reproduccion_en_curso],
                    continua)

\* POST /upload, a data block
SubidaBloque(buf, continua) ==
  /\ peticion.tipo = "upload"
  /\ peticion.fase = "write"
  /\ EntregarBloque(UPLOAD_FILE_WRITE, peticion.nombre, buf, TRUE,
                    [peticion EXCEPT !.bloques = @ - 1,
                                     !.fase = IF peticion.bloques > 1 THEN "write" ELSE "end"],
                    continua)

\* POST /upload, end of the file
SubidaFin(continua) ==
  /\ peticion.tipo = "upload"
  /\ peticion.fase = "end"
  /\ EntregarBloque(UPLOAD_FILE_END, peticion.nombre, "", TRUE,
                    [peticion EXCEPT !.fase = "fin"], continua)

\* POST /upload, the client went away: the request ends without its handler
SubidaAbortada ==
  /\ peticion.tipo = "upload"
  /\ peticion.fase \in {"write", "end"}
  /\ EntregarBloque(UPLOAD_FILE_ABORTED, peticion.nombre, "", TRUE, SinPeticion, FALSE)

\* The request handler of POST /upload (the lambda of setupServidorWeb), run
\* once after the whole body was parsed.
UploadCompleto ==
  /\ pc = "web"
  /\ servidor_web_activo
  /\ peticion.tipo = "upload"
  /\ peticion.fase = "fin"
  /\ pc' = "serial"
  /\ archivos_ok' = verificarArchivos(spiffs)
  /\ respuestas' = Append(respuestas, 303)
  /\ registro' = <<"Carga de todos los archivos completada.">> \o LogVerificar(spiffs)
  /\ peticion' = SinPeticion
  /\ ultimo' = [Nada EXCEPT !.op = "upload_fin", !.ocupado = reproduccion_en_curso,
                            !.codigo = 303]
  /\ UNCHANGED <<spiffs, servidor_web_activo, archivoDeSubida>>
  /\ SinCambioSesion /\ SinCambioBotones

(* ---------------- loop() ---------------- *)

\* One call of servidorWeb.handleClient().
PasoWeb ==
  \/ HandleClientOcioso
  \/ HandleRoot
  \/ \E tiene \in BOOLEAN, filename \in ArgsDelete :
       /\ tiene \/ filename = NombreFrase(1)
       /\ ServirDelete(tiene, filename)
  \/ HandleNotFound
  \/ \E nombre \in NombresSubida, nbloques \in 0..MaxBloques, abre \in BOOLEAN,
        continua \in BOOLEAN : SubidaInicio(nombre, nbloques, abre, continua)
  \/ \E buf \in Bloques, continua \in BOOLEAN : SubidaBloque(buf, continua)
  \/ \E continua \in BOOLEAN : SubidaFin(continua)
  \/ SubidaAbortada
  \/ UploadCompleto

\* The program with the Reset button left alone.  millis() is read only on a
\* falling edge, so time is advanced only there, by nothing or by more than
\* the debounce window.
Next ==
  \/ Setup
  \/ LoopSinServidor
  \/ PasoWeb
  \/ \E disponible \in BOOLEAN, linea \in Lineas, conecta \in BOOLEAN :
       LeerComandoSerial(disponible, linea, conecta)
  \/ \E actual_play \in BOOLEAN, d \in {0, 60},
        numero \in Random(1, CANTIDAD_TOTAL_FRASES + 1), abre \in BOOLEAN,
        comienza \in BOOLEAN :
       /\ FlancoBajada(actual_play, estado_anterior_play) \/ d = 0
       /\ GestionarPulsadores(actual_play, HIGH, d, 0, numero, abre, comienza)
       /\ SinObservarBotones /\ SinObservarInicio
  \/ GestionarReproduccionAudio

Spec == Init /\ [][Next]_vars

\* The program with no serial command received (the web server stays off),
\* every catalog file present, both buttons and the clock free, and the
\* channels observed.
InitBotones == Init /\ spiffs = FsInicial(1..CANTIDAD_TOTAL_FRASES)

NextBotones ==
  \/ Setup
  \/ LoopSinServidor
  \/ LeerComandoSerial(FALSE, <<>>, TRUE)
  \/ \E actual_play \in BOOLEAN, actual_reset \in BOOLEAN, d \in Deltas, e \in StartDelays,
        numero \in Random(1, CANTIDAD_TOTAL_FRASES + 1), abre \in BOOLEAN,
        comienza \in BOOLEAN :
       /\ GestionarPulsadores(actual_play, actual_reset, d, e, numero, abre, comienza)
       /\ ObservarBotones(actual_play, actual_reset, d, e)
       /\ SinObservarInicio
  \/ GestionarReproduccionAudio

SpecBotones == InitBotones /\ [][NextBotones]_vars

\* The program with the web server, the serial command channel and both
\* buttons, and no upload or delete request.  Time is advanced only on a
\* falling edge.  The start attempts are observed.
NextReinicio ==
  \/ Setup
  \/ LoopSinServidor
  \/ HandleClientOcioso
  \/ HandleRoot
  \/ \E disponible \in BOOLEAN, linea \in Lineas, conecta \in BOOLEAN :
       LeerComandoSerial(disponible, linea, conecta)
  \/ \E actual_play \in BOOLEAN, actual_reset \in BOOLEAN, d \in {0, 60},
        numero \in Random(1, CANTIDAD_TOTAL_FRASES + 1), abre \in BOOLEAN,
        comienza \in BOOLEAN :
       /\ \/ FlancoBajada(actual_play, estado_anterior_play)
          \/ FlancoBajada(actual_reset, estado_anterior_reset)
          \/ d = 0
       /\ GestionarPulsadores(actual_play, actual_reset, d, 0, numero, abre, comienza)
       /\ SinObservarBotones
       /\ ObservarInicio(actual_play, d, numero, abre, comienza)
  \/ GestionarReproduccionAudio

SpecReinicio == Init /\ [][NextReinicio]_vars

\* The same program under the scheduling of the Arduino runtime, which calls
\* loop() again as soon as it returns: a step of the program that stays
\* possible is eventually taken.
SpecJusto == Init /\ [][NextReinicio]_vars /\ WF_vars(NextReinicio)

\* The time check of gestionarPulsadores() as a function of two instants.
\* InstantesPrevios are the true times (ms since boot, not reduced) at which the
\* previous falling edge of a channel was handled, Esperas the true times
\* elapsed until the next falling edge is sampled; both reach around and past
\* the wrap of the millis() counter.
InstantesPrevios ==
  {0, 40, 51, 1000, PalabraMillis - 1000, PalabraMillis - 60, PalabraMillis - 51,
   PalabraMillis - 50, PalabraMillis - 1, PalabraMillis, PalabraMillis + 40,
   2 * PalabraMillis - 30}

Esperas ==
  {0, 1, 50, 51, 52, 60, 1000, PalabraMillis - 51, PalabraMillis - 50, PalabraMillis - 1,
   PalabraMillis, PalabraMillis + 1, PalabraMillis + 50, PalabraMillis + 51,
   2 * PalabraMillis, 2 * PalabraMillis + 51}

\* gestionarPulsadores() is about to run; the previous falling edge of both
\* channels was handled at the instant previo (ultimo_tiempo = millis() then)
\* and both buttons have been released since.
InitTiempo ==
  /\ pc = "pulsadores"
  /\ \E previo \in InstantesPrevios :
       /\ now = previo
       /\ ultimo_tiempo_play = Millis(previo)
       /\ ultimo_tiempo_reset = Millis(previo)
  /\ spiffs = FsInicial(1..CANTIDAD_TOTAL_FRASES)
  /\ reproduccion_en_curso = FALSE
  /\ fuente_audio = FuenteCerrada
  /\ mp3_running = FALSE
  /\ servidor_web_activo = FALSE
  /\ archivos_ok = TRUE
  /\ archivoDeSubida = ArchivoCerrado
  /\ estado_anterior_play = HIGH
  /\ estado_anterior_reset = HIGH
  /\ peticion = SinPeticion
  /\ respuestas = <<>>
  /\ registro = <<>>
  /\ ultimo = Nada
  /\ nivel = [c \in Canales |-> HIGH]
  /\ ev_act = [c \in Canales |-> 0]
  /\ desde_flanco = 0
  /\ desde_ev = [c \in Canales |-> demora_antirrebote + 1]
  /\ separacion = [c \in Canales |-> demora_antirrebote + 1]
  /\ reinicios_act = 0
  /\ hist_play = <<>>
  /\ fallo_previo = 0

\* The Play branch of gestionarPulsadores() on a falling edge sampled espera ms
\* after the previous one: the time check and the store of millis().
ComprobarTiempoPlay(espera) ==
  /\ pc = "pulsadores"
  /\ pc' = "audio"
  /\ now' = now + espera
  /\ ultimo_tiempo_play' = UltimoTiempo(TRUE, Millis(now + espera), ultimo_tiempo_play)
  /\ ultimo' = [Nada EXCEPT !.op = "tiempo_play",
                            !.estado = IF AceptaPlay(LOW, espera) THEN "acepta" ELSE "rechaza"]
  /\ UNCHANGED <<spiffs, reproduccion_en_curso, fuente_audio, mp3_running,
                 servidor_web_activo, archivos_ok, archivoDeSubida, estado_anterior_play,
                 estado_anterior_reset, ultimo_tiempo_reset, peticion, respuestas, registro>>
  /\ SinObservarBotones /\ SinObservarInicio

\* The Reset branch of gestionarPulsadores() on a falling edge sampled espera
\* ms after the previous one: the time check, then either ESP.restart() or the
\* store of millis().
ComprobarTiempoReset(espera) ==
  /\ pc = "pulsadores"
  /\ pc' = IF AceptaReset(HIGH, LOW, espera, 0) THEN "setup" ELSE "audio"
  /\ now' = now + espera
  /\ ultimo_tiempo_reset' = IF AceptaReset(HIGH, LOW, espera, 0)
                              THEN ultimo_tiempo_reset
                              ELSE UltimoTiempo(TRUE, Millis(now + espera), ultimo_tiempo_reset)
  /\ ultimo' = [Nada EXCEPT !.op = "tiempo_reset",
                            !.estado = IF AceptaReset(HIGH, LOW, espera, 0)
                                         THEN "acepta" ELSE "rechaza"]
  /\ UNCHANGED <<spiffs, reproduccion_en_curso, fuente_audio, mp3_running,
                 servidor_web_activo, archivos_ok, archivoDeSubida, estado_anterior_play,
                 estado_anterior_reset, ultimo_tiempo_play, peticion, respuestas, registro>>
  /\ SinObservarBotones /\ SinObservarInicio

NextTiempo ==
  \/ \E espera \in Esperas : ComprobarTiempoPlay(espera)
  \/ \E espera \in Esperas : ComprobarTiempoReset(espera)

SpecTiempo == InitTiempo /\ [][NextTiempo]_vars

\* The program with every management request, the "web" command, Play and
\* Reset, started with the whole catalog in storage.  Time is advanced only on
\* a falling edge.  Reset is pressed cleanly: its falling edge comes more than
\* the debounce window after the previous one, so every press restarts.
NextCompleto ==
  \/ Setup
  \/ LoopSinServidor
  \/ PasoWeb
  \/ \E disponible \in BOOLEAN :
       LeerComandoSerial(disponible, IF disponible THEN <<"w", "e", "b">> ELSE <<>>, TRUE)
  \/ \E actual_play \in BOOLEAN, actual_reset \in BOOLEAN, d \in {0, 60},
        numero \in Random(1, CANTIDAD_TOTAL_FRASES + 1), abre \in BOOLEAN,
        comienza \in BOOLEAN :
       /\ \/ FlancoBajada(actual_play, estado_anterior_play)
          \/ FlancoBajada(actual_reset, estado_anterior_reset)
          \/ d = 0
       /\ actual_reset = LOW => AceptaReset(actual_play, actual_reset, d, 0)
       /\ GestionarPulsadores(actual_play, actual_reset, d, 0, numero, abre, comienza)
       /\ SinObservarBotones /\ SinObservarInicio
  \/ GestionarReproduccionAudio

SpecCompleto == InitBotones /\ [][NextCompleto]_vars

(* ---------------- properties ---------------- *)

\* C1: a call of gestionarPulsadores() made while the session is Active, an
\* accepted Play edge included, performs no start: no number is drawn, no stream
\* is opened, and the session goes on with the same clip and the same handle.
C1_SinSegundoInicio ==
  [][(pc = "pulsadores" /\ reproduccion_en_curso)
       => /\ ultimo'.sorteo = 0
          /\ ultimo'.inicio = "ninguno"
          /\ reproduccion_en_curso'
          /\ fuente_audio' = fuente_audio
          /\ mp3_running' = mp3_running]_vars

\* An accepted Play edge has just been handled while a clip was playing.
C1_Testigo ==
  /\ ultimo.op = "pulsadores"
  /\ ultimo.play = "ocupado"
  /\ reproduccion_en_curso /\ fuente_audio.abierto /\ mp3_running

\* C2: at the start of every loop() iteration the busy flag is true exactly
\* when the stream handle is open and the decoder is running on it.
C2_OcupadoSiiFuenteActiva ==
  pc = "serial" => (reproduccion_en_curso <=> (fuente_audio.abierto /\ mp3_running))

ErroresInicio == {"El archivo no existe en SPIFFS. NO SE PUEDE REPRODUCIR.",
                  "Error al abrir el archivo"}

\* C3: a start whose drawn file is not in storage, or does not open, leaves the
\* session Idle with no handle open and the decoder stopped, writes the error
\* to the log, and changes neither storage nor the web server's state.
C3_InicioFallido ==
  [][(/\ pc = "pulsadores"
      /\ ultimo'.op = "pulsadores"
      /\ ultimo'.sorteo # 0
      /\ \/ RutaFrase(ultimo'.sorteo) \notin DOMAIN spiffs
         \/ ultimo'.inicio = "open_fallo")
       => /\ ~reproduccion_en_curso'
          /\ ~fuente_audio'.abierto
          /\ ~mp3_running'
          /\ \E i \in 1..Len(registro') : registro'[i] \in ErroresInicio
          /\ UNCHANGED <<spiffs, servidor_web_activo, archivos_ok, archivoDeSubida,
                         peticion, respuestas>>]_vars

\* A start has just failed at open() with the file present in storage.
C3_Testigo ==
  /\ ultimo.op = "pulsadores"
  /\ ultimo.inicio = "open_fallo"
  /\ Exists(spiffs, RutaFrase(ultimo.sorteo))
  /\ ~reproduccion_en_curso

\* C4: while the session is Active, the first block of an upload and a delete
\* request are answered 409 and storage is the same before and after.
C4_ConflictoSinCambio ==
  [][(/\ pc = "web"
      /\ reproduccion_en_curso
      /\ \/ ultimo'.op = "delete"
         \/ ultimo'.op = "upload" /\ ultimo'.estado = UPLOAD_FILE_START)
       => /\ spiffs' = spiffs
          /\ respuestas' = <<409>>
          /\ ultimo'.codigo = 409]_vars

\* The first block of an upload has just been refused while a clip was playing.
C4_Testigo ==
  /\ ultimo.op = "upload"
  /\ ultimo.estado = UPLOAD_FILE_START
  /\ ultimo.ocupado
  /\ respuestas = <<409>>
  /\ peticion.rechazada

C6_UnEventoPorActivacion == \A c \in Canales : ev_act[c] <= 1

\* C7: within one run of the program, a Play press that comes more than 50 ms
\* after any earlier edge and is held longer than the window, followed by a
\* release and a second press, emits two Pressed events, one per activation.
C7_DosPulsacionesDosEventos ==
  (/\ Len(hist_play) = 2
   /\ hist_play[1].limpia
   /\ hist_play[1].dur > demora_antirrebote)
    => (hist_play[1].ev = 1 /\ hist_play[2].ev = 1)

\* C8: two Pressed events accepted on the same channel are more than 50 ms apart.
C8_SeparacionDeEventos == \A c \in Canales : separacion[c] > demora_antirrebote

\* Two Play activations of the same run have each emitted a Pressed event.
C8_Testigo ==
  /\ Len(hist_play) = 2
  /\ hist_play[1].ev = 1
  /\ hist_play[2].ev = 1

\* C9: one physical activation of Reset causes at most one restart.
C9_UnReinicioPorActivacion == reinicios_act <= 1

\* C10: every upload block delivered while the session is Active writes nothing
\* to storage and opens no file, and a block other than the first one sends no
\* response.
C10_BloquesDescartados ==
  [][(/\ pc = "web"
      /\ reproduccion_en_curso
      /\ ultimo'.op = "upload")
       => /\ spiffs' = spiffs
          /\ archivoDeSubida' = archivoDeSubida
          /\ (ultimo'.estado # UPLOAD_FILE_START
                => (respuestas' = respuestas /\ ultimo'.codigo = 0))]_vars

\* A data block has just been dropped: the transfer had opened its file while
\* the session was Idle and the session became Active before the block came.
C10_Testigo ==
  /\ ultimo.op = "upload"
  /\ ultimo.estado = UPLOAD_FILE_WRITE
  /\ ultimo.ocupado
  /\ archivoDeSubida.abierto
  /\ ~peticion.rechazada

\* C11: the write handle is closed when the final block of an upload is
\* handled, whatever the state of the session at that moment.
C11_CierreEnBloqueFinal ==
  [][(/\ pc = "web"
      /\ ultimo'.op = "upload"
      /\ ultimo'.estado = UPLOAD_FILE_END)
       => ~archivoDeSubida'.abierto]_vars

\* C12 (as stated): while the first block of an upload is handled, a stored
\* resource of the same name stays in storage with its old contents.
C12_ReemplazoAlFinal ==
  [][(/\ pc = "web"
      /\ ultimo'.op = "upload"
      /\ ultimo'.estado = UPLOAD_FILE_START
      /\ (<<"/">> \o NombreFrase(1)) \in DOMAIN spiffs)
       => /\ (<<"/">> \o NombreFrase(1)) \in DOMAIN spiffs'
          /\ spiffs'[<<"/">> \o NombreFrase(1)] = spiffs[<<"/">> \o NombreFrase(1)]]_vars

\* C12 (amended): the old resource is deleted when the first block of the
\* upload is handled with the session Idle.  Right after that block the name
\* holds an empty file open for writing, or no file when the open failed.
C12_ReemplazoAlInicio ==
  [][(/\ pc = "web"
      /\ ~reproduccion_en_curso
      /\ ultimo'.op = "upload"
      /\ ultimo'.estado = UPLOAD_FILE_START)
       => LET ruta == <<"/">> \o NombreFrase(1) IN
          \/ /\ archivoDeSubida' = [abierto |-> TRUE, ruta |-> ruta]
             /\ ruta \in DOMAIN spiffs'
             /\ spiffs'[ruta] = <<>>
             /\ \A r \in (DOMAIN spiffs) \ {ruta} : r \in DOMAIN spiffs' /\ spiffs'[r] = spiffs[r]
          \/ /\ ~archivoDeSubida'.abierto
             /\ ruta \notin DOMAIN spiffs'
             /\ \A r \in (DOMAIN spiffs) \ {ruta} : r \in DOMAIN spiffs' /\ spiffs'[r] = spiffs[r]]_vars

\* The first block of an upload has just replaced a stored resource by an
\* empty file; no data block or final block has been handled yet.
C12_Testigo ==
  /\ ultimo.op = "upload"
  /\ ultimo.estado = UPLOAD_FILE_START
  /\ ultimo.reemplaza
  /\ archivoDeSubida.abierto
  /\ spiffs[archivoDeSubida.ruta] = <<>>
  /\ peticion.fase \in {"write", "end"}

\* C13: a delete request is answered 409 when the session is Active; else 400
\* when the 'filename' argument is missing; else 404 when "/" + filename is not
\* in storage; else the file is removed and the answer is 303.  Storage is
\* unchanged in the 409, 400 and 404 outcomes.
C13_PrioridadDelete ==
  [][(pc = "web" /\ ultimo'.op = "delete")
       => LET ruta == <<"/">> \o ultimo'.nombre
              esperado == IF reproduccion_en_curso THEN 409
                          ELSE IF ultimo'.estado = "sin_arg" THEN 400
                          ELSE IF ruta \notin DOMAIN spiffs THEN 404
                          ELSE 303
          IN /\ respuestas' = <<esperado>>
             /\ esperado \in {409, 400, 404} => spiffs' = spiffs
             /\ esperado = 303 => ruta \notin DOMAIN spiffs']_vars

\* A delete request that named a resource not in storage has just been
\* answered 404 with the session Idle.
C13_Testigo ==
  /\ ultimo.op = "delete"
  /\ ultimo.estado = "con_arg"
  /\ ~ultimo.ocupado
  /\ (<<"/">> \o ultimo.nombre) \notin DOMAIN spiffs
  /\ respuestas = <<404>>

\* C14: with the session Idle, a delete request for a stored resource removes
\* that resource and no other, recomputes the audit flag from the new storage,
\* and the root listing shows exactly the resources in storage, so it omits
\* the deleted one.
C14_DeleteExistente ==
  [][/\ (/\ pc = "web"
         /\ ~reproduccion_en_curso
         /\ ultimo'.op = "delete"
         /\ ultimo'.estado = "con_arg"
         /\ (<<"/">> \o ultimo'.nombre) \in DOMAIN spiffs)
          => LET ruta == <<"/">> \o ultimo'.nombre IN
             /\ DOMAIN spiffs' = (DOMAIN spiffs) \ {ruta}
             /\ \A r \in DOMAIN spiffs' : spiffs'[r] = spiffs[r]
             /\ archivos_ok' = (\A i \in 1..CANTIDAD_TOTAL_FRASES :
                                  (<<"/">> \o NombreFrase(i)) \in DOMAIN spiffs')
     /\ (pc = "web" /\ ultimo'.op = "root")
          => {e.nombre : e \in ultimo'.listado} = DOMAIN spiffs]_vars

\* A stored catalog resource has just been deleted with the session Idle:
\* another resource is still stored and the audit flag is false.
C14_Testigo ==
  /\ ultimo.op = "delete"
  /\ ultimo.codigo = 303
  /\ ~ultimo.ocupado
  /\ (<<"/">> \o ultimo.nombre) \notin DOMAIN spiffs
  /\ DOMAIN spiffs # {}
  /\ ~archivos_ok

\* Lines that read "web" once the blanks at both ends are removed and the
\* letters are lower-cased.
LineasWeb == {<<"w", "e", "b">>, <<" ", "W", "e", "B", "\r">>}

OpsWeb == {"web_inactivo", "web_ocioso", "root", "delete", "notfound", "upload", "upload_fin"}

\* C16: the steps of loop() run in the order handleClient() (only when the web
\* server is active), leerComandoSerial(), the Play poll, the Reset poll,
\* gestionarReproduccionAudio(), and then the next iteration starts.  A start
\* made by the Play poll is logged before the restart message of the Reset
\* poll, and an accepted Reset goes to setup() without the audio step.
C16_OrdenDeLoop ==
  [][/\ pc = "setup" => pc' \in {"web", "detenido"}
     /\ pc = "web"
          => /\ ultimo'.op \in OpsWeb
             /\ pc' \in {"web", "serial"}
             /\ pc' = "web" => ultimo'.op = "upload"
             /\ ~servidor_web_activo
                  => /\ ultimo'.op = "web_inactivo"
                     /\ UNCHANGED <<spiffs, archivos_ok, archivoDeSubida, peticion, respuestas>>
     /\ pc = "serial" => (ultimo'.op = "serial" /\ pc' = "pulsadores")
     /\ pc = "pulsadores"
          => /\ ultimo'.op = "pulsadores"
             /\ pc' = (IF ultimo'.reset = "reinicio" THEN "setup" ELSE "audio")
             /\ (ultimo'.play = "inicio" /\ ultimo'.reset = "reinicio")
                  => /\ Len(registro') = 3
                     /\ registro'[1] = "Intentando reproducir desde SPIFFS"
                     /\ registro'[3] = "Boton de reinicio presionado. Reiniciando el sistema..."
     /\ pc = "audio"
          => /\ ultimo'.op = "audio"
             /\ pc' = "web"
             /\ ~reproduccion_en_curso => UNCHANGED <<fuente_audio, mp3_running>>]_vars

\* A Reset press has just been accepted in the poll that also started a clip:
\* the program is on its way to setup() and the audio step has not run.
C16_Testigo ==
  /\ pc = "setup"
  /\ ultimo.op = "pulsadores"
  /\ ultimo.play = "inicio"
  /\ ultimo.reset = "reinicio"
  /\ reproduccion_en_curso
  /\ fuente_audio.pos = 0

\* C17: a start is attempted only by the Play poll, on an accepted falling
\* edge with the session Idle; a failed start leaves the session Idle; and
\* every accepted Play press that finds the session Idle draws a number in
\* 1..N and attempts a start, also when the previous attempt failed.
C17_SinReintentoNiBloqueo ==
  [][/\ \/ ultimo'.sorteo # 0
        \/ (~reproduccion_en_curso /\ reproduccion_en_curso')
        \/ (pc # "setup" /\ fuente_audio' # fuente_audio /\ fuente_audio'.abierto
              /\ fuente_audio'.pos = 0)
          => /\ pc = "pulsadores"
             /\ estado_anterior_play = HIGH /\ estado_anterior_play' = LOW
             /\ ultimo'.play = "inicio"
             /\ ~reproduccion_en_curso
     /\ fallo_previo' # 0 => ~reproduccion_en_curso'
     /\ (pc = "pulsadores" /\ ultimo'.play \in {"inicio", "ocupado"} /\ ~reproduccion_en_curso)
          => /\ ultimo'.sorteo \in 1..CANTIDAD_TOTAL_FRASES
             /\ Len(registro') >= 2
             /\ registro'[1] = "Intentando reproducir desde SPIFFS"]_vars

\* A start has just succeeded on a press that followed a failed start of
\* another number.
C17_Testigo ==
  /\ ultimo.op = "pulsadores"
  /\ ultimo.tras_fallo # 0
  /\ ultimo.inicio = "ok"
  /\ ultimo.sorteo # ultimo.tras_fallo
  /\ reproduccion_en_curso

\* C18: when SPIFFS.begin() fails, setup() logs the error and halts: the
\* program takes no further step, with the session Idle and the web server
\* inactive.  When the mount succeeds loop() is entered, whether or not the
\* audit found every catalog file.
C18_AltoSiNoMonta ==
  [][/\ pc = "detenido" => FALSE
     /\ pc = "setup"
          => /\ ~reproduccion_en_curso' /\ ~servidor_web_activo'
             /\ IF "Error al inicializar SPIFFS. El programa se detendra."
                     \in {registro'[i] : i \in 1..Len(registro')}
                  THEN pc' = "detenido"
                  ELSE /\ pc' = "web"
                       /\ archivos_ok' = (\A i \in 1..CANTIDAD_TOTAL_FRASES :
                                            (<<"/">> \o NombreFrase(i)) \in DOMAIN spiffs)]_vars

\* The mount has failed and the program is halted in setup().
C18_Testigo ==
  /\ pc = "detenido"
  /\ ultimo.op = "setup"
  /\ ultimo.estado = "fallo"
  /\ ~archivos_ok

\* C19: every number drawn for playback lies in 1..N, and a start that opens
\* the stream for the number k opens the path "/frase<k>.mp3".
C19_SorteoEnRango ==
  /\ ultimo.sorteo \in 0..CANTIDAD_TOTAL_FRASES
  /\ (ultimo.op = "pulsadores" /\ ultimo.play = "inicio")
       => ultimo.sorteo \in 1..CANTIDAD_TOTAL_FRASES
  /\ (ultimo.op = "pulsadores" /\ ultimo.inicio \in {"ok", "begin_fallo"})
       => fuente_audio = [abierto |-> TRUE,
                          ruta |-> <<"/", "frase", ToString(ultimo.sorteo), ".mp3">>,
                          pos |-> 0]

\* The largest number of the catalog has just been drawn and its file opened.
C19_Testigo ==
  /\ ultimo.op = "pulsadores"
  /\ ultimo.inicio = "ok"
  /\ ultimo.sorteo = CANTIDAD_TOTAL_FRASES
  /\ fuente_audio.ruta = <<"/">> \o NombreFrase(CANTIDAD_TOTAL_FRASES)

\* C20: when every file "/frase1.mp3" .. "/fraseN.mp3" is in storage, a start
\* made by an accepted Play press never reports that the file does not exist.
C20_CatalogoCompleto ==
  [][(/\ pc = "pulsadores"
      /\ \A i \in 1..CANTIDAD_TOTAL_FRASES : (<<"/">> \o NombreFrase(i)) \in DOMAIN spiffs
      /\ ultimo'.play = "inicio")
       => /\ ultimo'.inicio # "no_existe"
          /\ \A i \in 1..Len(registro') :
               registro'[i] # "El archivo no existe en SPIFFS. NO SE PUEDE REPRODUCIR."]_vars

\* A start has just succeeded with the whole catalog in storage.
C20_Testigo ==
  /\ ultimo.op = "pulsadores"
  /\ ultimo.inicio = "ok"
  /\ \A i \in 1..CANTIDAD_TOTAL_FRASES : (<<"/">> \o NombreFrase(i)) \in DOMAIN spiffs
  /\ archivos_ok
  /\ reproduccion_en_curso

\* C21: the busy flag goes from false to true only in a call of
\* gestionarPulsadores() that handles an accepted Play edge, and from true to
\* false only when gestionarReproduccionAudio() finds the stream exhausted or
\* when the program restarts; the web server step (idle, listing, upload,
\* delete, not-found) and the serial command step change neither the busy flag
\* nor the stream handle nor the decoder.
C21_SoloLaSesionCambiaOcupado ==
  [][/\ (~reproduccion_en_curso /\ reproduccion_en_curso')
          => /\ pc = "pulsadores"
             /\ FlancoBajada(estado_anterior_play', estado_anterior_play)
             /\ ultimo'.play = "inicio"
     /\ (reproduccion_en_curso /\ ~reproduccion_en_curso')
          => \/ pc = "audio" /\ ultimo'.estado = "fin"
             \/ pc = "setup"
     /\ pc \in {"web", "serial"}
          => UNCHANGED <<reproduccion_en_curso, fuente_audio, mp3_running>>]_vars

\* A management request has just been served in the middle of a clip: the
\* session is still Active, on the same stream, past its first frame.
C21_Testigo ==
  /\ ultimo.op \in {"root", "upload", "delete", "notfound"}
  /\ ultimo.ocupado
  /\ reproduccion_en_curso /\ fuente_audio.abierto /\ mp3_running
  /\ fuente_audio.pos > 0

\* C22: every call of gestionarReproduccionAudio() made while the session is
\* Active performs one reproductor_mp3->loop(), the call of the iteration that
\* started the clip included; when that loop() reports the end of the stream,
\* the decoder is stopped, the stream handle is closed and the busy flag is
\* cleared within the same call.
C22_UnPasoPorIteracion ==
  [][(pc = "audio" /\ reproduccion_en_curso)
       => /\ ultimo'.estado \in {"paso", "fin"}
          /\ ultimo'.estado = "paso"
               => (reproduccion_en_curso' /\ fuente_audio'.pos = fuente_audio.pos + 1)
          /\ ultimo'.estado = "fin"
               => (~reproduccion_en_curso' /\ ~fuente_audio'.abierto /\ ~mp3_running')]_vars

\* C23: when an accepted Reset press is handled while the session is Active,
\* the decoder has been stopped and the stream handle closed by the time
\* ESP.restart() is called.
C23_DetenerAntesDeReiniciar ==
  (pc = "setup" /\ ultimo.reset = "reinicio" /\ ultimo.ocupado)
    => (~mp3_running /\ ~fuente_audio.abierto)

C25_RechazoDefinitivo ==
  [][(pc = "web" /\ peticion.tipo = "upload" /\ peticion.rechazada)
       => (respuestas' = respuestas /\ spiffs' = spiffs)]_vars

\* C26: once an upload request is over, whether its final block was delivered
\* or the request was aborted, the write handle archivoDeSubida is closed.
C26_SinArchivoTrasLaSubida ==
  peticion = SinPeticion => ~archivoDeSubida.abierto

\* C27: under fair scheduling of loop(), with every clip a finite file, every
\* state in which the busy flag is true is followed by a state in which it is
\* false, also when reproductor_mp3->begin() failed on a stream that opened.
C27_TodaReproduccionTermina ==
  reproduccion_en_curso ~> ~reproduccion_en_curso

\* C28: while the session is Active the file being played is in storage, and
\* no step that leaves the session Active (a Play or Reset press, a serial
\* command, a management request, a decoding step) removes it, writes to it or
\* moves the session to another file.
C28_ClipIntactoMientrasSuena ==
  [][/\ reproduccion_en_curso' => Exists(spiffs', fuente_audio'.ruta)
     /\ (reproduccion_en_curso /\ reproduccion_en_curso')
          => /\ fuente_audio'.ruta = fuente_audio.ruta
             /\ spiffs'[fuente_audio.ruta] = spiffs[fuente_audio.ruta]]_vars

\* A data block of an upload has just been dropped during a clip that plays
\* the very file the upload had opened for writing.
C28_Testigo ==
  /\ ultimo.op = "upload"
  /\ ultimo.estado = UPLOAD_FILE_WRITE
  /\ ultimo.ocupado
  /\ reproduccion_en_curso /\ fuente_audio.abierto
  /\ archivoDeSubida.abierto
  /\ archivoDeSubida.ruta = fuente_audio.ruta

\* C29: a start of playback never opens a file that the upload handle
\* archivoDeSubida has open for writing at that moment.
C29_SinInicioSobreSubidaAbierta ==
  [][(pc = "pulsadores" /\ ~reproduccion_en_curso /\ reproduccion_en_curso')
       => ~(archivoDeSubida.abierto /\ archivoDeSubida.ruta = fuente_audio'.ruta)]_vars

\* C30: a data block of an upload is written only to the file opened by the
\* first block of that same upload; a request whose first block was refused
\* opened no file, so none of its data blocks is written to storage.
C30_BloquesEnSuPropioArchivo ==
  [][(/\ pc = "web"
      /\ peticion.tipo = "upload"
      /\ peticion.rechazada
      /\ ultimo'.op = "upload"
      /\ ultimo'.estado = UPLOAD_FILE_WRITE)
       => spiffs' = spiffs]_vars

OpsTiempo == {"tiempo_play", "tiempo_reset"}

\* C31 (as stated): a falling edge is accepted exactly when the true time
\* elapsed since the previous falling edge of the channel exceeds the 50 ms
\* window, for every pair of instants, those on opposite sides of the wrap of
\* the counter and those a whole turn of the counter or more apart included.
C31_TiempoSiempreExacto ==
  [][(pc = "pulsadores" /\ ultimo'.op \in OpsTiempo)
       => (ultimo'.estado = "acepta" <=> (now' - now) > demora_antirrebote)]_vars

\* C31 (amended): the check is exact when the two edges are less than one turn
\* of the counter apart, whichever side of the wrap they are on; in general
\* the edge is accepted exactly when the elapsed time modulo the size of the
\* counter exceeds the window.
C31_TiempoExactoHastaUnaVuelta ==
  [][(pc = "pulsadores" /\ ultimo'.op \in OpsTiempo)
       => /\ (now' - now) < PalabraMillis
               => (ultimo'.estado = "acepta" <=> (now' - now) > demora_antirrebote)
          /\ ultimo'.estado = "acepta"
               <=> ((now' - now) % PalabraMillis) > demora_antirrebote]_vars

\* A falling edge has just been accepted at an instant less than one window
\* after the first wrap of the counter: the previous edge was stored before
\* the wrap, so millis() is smaller than ultimo_tiempo in the subtraction.
C31_Testigo ==
  /\ ultimo.op \in OpsTiempo
  /\ ultimo.estado = "acepta"
  /\ now >= PalabraMillis
  /\ now < PalabraMillis + demora_antirrebote

====
